---- MODULE Spec2Model ----
(***************************************************************************)
(* Model of the swing-trade backtest driver (src/backtest.py).             *)
(*                                                                         *)
(* Dates are integers counting calendar days; day 0 is a Monday, so        *)
(* d % 7 is the weekday (0 = Monday .. 6 = Sunday).  Money and prices are  *)
(* integers in units of 1/1000 rupee, which represents every value the     *)
(* cost formula produces on the price grid below exactly; rounding to 2    *)
(* decimals is rounding to a multiple of 10.                               *)
(*                                                                         *)
(* The price frame of an instrument is an input that the run reads one     *)
(* bar at a time.  It is revealed lazily: a bar is chosen when the code    *)
(* looks it up, and a position's price_df keeps the newest bar of its      *)
(* frame that has been read so far.                                        *)
(***************************************************************************)
EXTENDS Integers, Sequences, FiniteSets, TLC

\* ---------------------------------------------------------------- configuration
INITIAL_CAPITAL == 200000000
MAX_RISK_PER_TRADE == 4000000
LOOKAHEAD_DAYS == 80
EXIT_NO_TARGET_DAYS == 40

\* ---------------------------------------------------------------- input bounds
MaxSignals == 2

Symbols == {"A", "B"}
EntryDates == {0, 2, 5}
\* (entry_price, stop_loss, target) of the signals of each symbol
Levels ==
  [A |-> { <<120000, 60000, 240000>>,        \* risk 60, qty 66
           <<120000, 120000, 240000>> },     \* risk 0
   B |-> { <<1000000, 980000, 1040000>>,     \* risk 20, qty 200, cost = capital
           <<5000000, 980000, 13040000>> }]  \* risk 4020 > budget, qty 0
\* prices a daily bar can take
BarPrices == {1000, 60000, 100000, 240000}
\* calendar dates on which an instrument may have a bar besides its entry dates
BarDates == {2, 7, 39, 42, 80, 81, 85}

NoBar == [open |-> -1, high |-> -1, low |-> -1, close |-> -1]
NoPos == [symbol |-> "-"]
\* dates on which a frame may have a bar that the day loop never looks up:
\* a Saturday session inside the calendar, a date after the last calendar date
UnreadBarDates == {47, 90}

Bars == { b \in [open : BarPrices, high : BarPrices, low : BarPrices, close : BarPrices] :
            /\ b.low <= b.open /\ b.open <= b.high
            /\ b.close = b.open }

SignalDomain ==
  UNION { { [symbol |-> s, instrument_key |-> s, entry_date |-> d,
             entry_price |-> l[1], stop_loss |-> l[2], target |-> l[3]] :
            d \in EntryDates, l \in Levels[s] } : s \in Symbols }

\* trades.sort_values('entry_date'): any order of the rows that is ascending in entry_date
SortedByEntryDate(t) ==
  \A i \in 1..Len(t) : \A j \in 1..Len(t) : i < j => t[i].entry_date <= t[j].entry_date

SignalLists ==
  UNION { { t \in [1..n -> SignalDomain] : SortedByEntryDate(t) } : n \in 1..MaxSignals }

VARIABLES trades, all_dates, day_no, pc, scan, calls, pos, row, exit_bar,
          capital, open_positions, completed,
          SKIPS_ALREADY_HOLDED, SKIPS_NO_CAP, TRADES_ENTERED, TRADES_EXITED

\* detect_swing_trades (src/stock_pick.py): the frame, the loop index, the
\* signals found so far and the position in the function
VARIABLES df, loop_i, swing_trades, det_pc

vars == <<trades, all_dates, day_no, pc, scan, calls, pos, row, exit_bar,
          capital, open_positions, completed,
          SKIPS_ALREADY_HOLDED, SKIPS_NO_CAP, TRADES_ENTERED, TRADES_EXITED,
          df, loop_i, swing_trades, det_pc>>

\* the variables of the backtest script and those of the detector
btvars == <<trades, all_dates, day_no, pc, scan, calls, pos, row, exit_bar,
            capital, open_positions, completed,
            SKIPS_ALREADY_HOLDED, SKIPS_NO_CAP, TRADES_ENTERED, TRADES_EXITED>>
detvars == <<df, loop_i, swing_trades, det_pc>>

\* ---------------------------------------------------------------- helpers
SetMin(S) == CHOOSE x \in S : \A y \in S : x <= y
SetMax(S) == CHOOSE x \in S : \A y \in S : x >= y

TOTAL_CALLS_IN_CSV == Len(trades)

EntryDateSet(t) == { t[i].entry_date : i \in 1..Len(t) }

\* pd.bdate_range(start, end): the Monday..Friday dates of [start, end], ascending
BDateRange(start, end) ==
  SelectSeq([i \in 1..(end - start + 1) |-> start + i - 1], LAMBDA d : d % 7 < 5)

\* lines 38-40, for the signal frame t
TradingCalendar(t) ==
  LET start_date == SetMin(EntryDateSet(t))
      end_date == SetMax(EntryDateSet(t)) + LOOKAHEAD_DAYS
  IN  BDateRange(start_date, end_date)

\* the loop variable of `for today in all_dates`
today == all_dates[day_no]
final_date == all_dates[Len(all_dates)]

\* trades_by_date.get_group(d), rows in the order of the sorted frame
GroupOf(d) == SelectSeq(trades, LAMBDA c : c.entry_date = d)

\* variant: the transaction tax is taken on the sell side only
calculate_charges_sell_only(buy_val, sell_val) ==
  (3 * buy_val) \div 20000 + sell_val \div 1000 + 14750

calculate_charges(buy_val, sell_val) ==
  LET stamp == (3 * buy_val) \div 20000
      stt   == (sell_val + buy_val) \div 1000
      dp    == 14750
  IN  stamp + stt + dp

\* round(x, 2): the nearest multiple of 10; at an exact decimal tie the binary
\* value of the float decides, so either neighbour can come out
Round2(x) ==
  LET r == x % 10
      base == x - r
  IN  IF r < 5 THEN {base}
      ELSE IF r > 5 THEN {base + 10}
      ELSE {base, base + 10}

\* ---------------------------------------------------------------- exit pass
DaysHeld(p, d) == d - p.entry_date

\* The detector takes entry_date from a bar of the instrument (stock_pick.py),
\* so the frame has a bar on every entry date of the instrument's signals.
BarForced(inst, d) ==
  \E i \in 1..Len(trades) : trades[i].instrument_key = inst /\ trades[i].entry_date = d

\* `today in df.index` can be true / can be false for the frame of position p
MayHaveBar(p, d) == d \in BarDates \/ BarForced(p.price_df.inst, d)
MayLackBar(p, d) == ~BarForced(p.price_df.inst, d)

NoExit == [exit_price |-> -1, exit_type |-> "None"]

SLTrigger(p, r) == r.low <= p.stop_loss
TargetTrigger(p, r) == ~p.hit /\ r.high >= p.target
\* variant: the threshold day itself does not count
NoTargetTriggerStrict(p, days_held) == ~p.hit /\ days_held > EXIT_NO_TARGET_DAYS
NoTargetTrigger(p, days_held) == ~p.hit /\ days_held >= EXIT_NO_TARGET_DAYS

\* variant: the target branch is tested before the stop-loss branch
ExitDecisionTargetFirst(p, r, days_held) ==
  IF TargetTrigger(p, r) THEN [exit_price |-> p.target, exit_type |-> "TARGET HIT"]
  ELSE IF SLTrigger(p, r) THEN [exit_price |-> p.stop_loss, exit_type |-> "SL"]
  ELSE IF NoTargetTrigger(p, days_held) THEN [exit_price |-> r.low, exit_type |-> "NO_TARGET"]
  ELSE NoExit

\* the if / elif chain of the exit pass
ExitDecision(p, r, days_held) ==
  IF SLTrigger(p, r) THEN [exit_price |-> p.stop_loss, exit_type |-> "SL"]
  ELSE IF TargetTrigger(p, r) THEN [exit_price |-> p.target, exit_type |-> "TARGET HIT"]
  ELSE IF NoTargetTrigger(p, days_held) THEN [exit_price |-> r.low, exit_type |-> "NO_TARGET"]
  ELSE NoExit

\* the unrounded charges and pnl of closing p at exit_price
ChargesOf(p, exit_price) == calculate_charges(p.entry_price * p.qty, exit_price * p.qty)
PnlOf(p, exit_price) ==
  exit_price * p.qty - p.entry_price * p.qty - ChargesOf(p, exit_price)

\* the dict appended to completed
TradeRecord(p, exit_date, exit_price, exit_type, charges2, pnl2) ==
  [symbol |-> p.symbol, entry_date |-> p.entry_date, exit_date |-> exit_date,
   entry_price |-> p.entry_price, exit_price |-> exit_price, qty |-> p.qty,
   reason |-> exit_type, charges |-> charges2, pnl |-> pnl2,
   holding_days |-> DaysHeld(p, exit_date)]

\* variant: the closed position is left in the list
RemoveNone(list, p) == list

\* list.remove(p): drops the first element equal to p
Remove(list, p) ==
  IF \E i \in 1..Len(list) : list[i] = p
  THEN LET k == SetMin({ i \in 1..Len(list) : list[i] = p })
       IN  SubSeq(list, 1, k - 1) \o SubSeq(list, k + 1, Len(list))
  ELSE list

\* the frame of the position now shows bar r of date d as its newest known bar
SeenBar(p, d, r) == [p EXCEPT !.price_df.date = d, !.price_df.open = r.open]

Replace(list, p, q) == [i \in 1..Len(list) |-> IF list[i] = p THEN q ELSE list[i]]

\* variant: a target touch only sets the flag, the position stays open
CloseRuleAfterFlag(p, dec) ==
  IF dec.exit_type = "TARGET HIT"
  THEN /\ open_positions' = Replace(open_positions, p, [p EXCEPT !.hit = TRUE])
       /\ UNCHANGED <<capital, completed, TRADES_EXITED>>
  ELSE LET charges == ChargesOf(p, dec.exit_price)
           pnl == PnlOf(p, dec.exit_price)
       IN  /\ \E c2 \in Round2(charges), p2 \in Round2(pnl) :
                 completed' = Append(completed,
                                     TradeRecord(p, today, dec.exit_price, dec.exit_type, c2, p2))
           /\ capital' = capital + (dec.exit_price * p.qty - charges)
           /\ open_positions' = Remove(open_positions, p)
           /\ TRADES_EXITED' = TRADES_EXITED + 1

\* lines 99-121: close p at decision dec
CloseRule(p, dec) ==
  LET charges == ChargesOf(p, dec.exit_price)
      pnl == PnlOf(p, dec.exit_price)
  IN  /\ \E c2 \in Round2(charges), p2 \in Round2(pnl) :
            completed' = Append(completed,
                                TradeRecord(p, today, dec.exit_price, dec.exit_type, c2, p2))
      /\ capital' = capital + (dec.exit_price * p.qty - charges)
      /\ open_positions' = Remove(open_positions, p)
      /\ TRADES_EXITED' = TRADES_EXITED + 1

\* variant: a position past the holding limit is closed at its last known open
MissingBarTimeout(p) ==
  IF NoTargetTrigger(p, DaysHeld(p, today))
  THEN CloseRule(p, [exit_price |-> p.price_df.open, exit_type |-> "NO_TARGET"])
  ELSE UNCHANGED <<capital, open_positions, completed, TRADES_EXITED>>

\* line 65: `continue`, nothing of the position or the account is written
MissingBar(p) == UNCHANGED <<capital, open_positions, completed, TRADES_EXITED>>

\* lines 62-65: the instrument has no bar today
CheckNoBar ==
  /\ pc = "exits" /\ scan # <<>>
  /\ MayLackBar(Head(scan), today)
  /\ pos' = Head(scan)
  /\ row' = NoBar
  /\ MissingBar(Head(scan))
  /\ scan' = Tail(scan)
  /\ UNCHANGED <<df, loop_i, swing_trades, det_pc, exit_bar, trades, all_dates, day_no, pc, calls,
                 SKIPS_ALREADY_HOLDED, SKIPS_NO_CAP, TRADES_ENTERED>>

\* lines 66-121: bar r is today's row of the frame of p = Head(scan)
Evaluate(p, r) ==
  LET dec == ExitDecision(p, r, DaysHeld(p, today))
  IN  /\ row' = r
      /\ pos' = IF dec.exit_type = "TARGET HIT" THEN [p EXCEPT !.hit = TRUE] ELSE p
      /\ IF dec = NoExit
         THEN /\ open_positions' = Replace(open_positions, p, SeenBar(p, today, r))
              /\ UNCHANGED <<capital, completed, TRADES_EXITED>>
         ELSE CloseRule(p, dec)
      /\ scan' = Tail(scan)
      /\ UNCHANGED <<df, loop_i, swing_trades, det_pc, exit_bar, trades, all_dates, day_no, pc, calls,
                     SKIPS_ALREADY_HOLDED, SKIPS_NO_CAP, TRADES_ENTERED>>

\* lines 73-74
CheckStopLoss ==
  /\ pc = "exits" /\ scan # <<>>
  /\ MayHaveBar(Head(scan), today)
  /\ \E r \in Bars :
       /\ ExitDecision(Head(scan), r, DaysHeld(Head(scan), today)).exit_type = "SL"
       /\ Evaluate(Head(scan), r)

\* lines 76-84
CheckTarget ==
  /\ pc = "exits" /\ scan # <<>>
  /\ MayHaveBar(Head(scan), today)
  /\ \E r \in Bars :
       /\ ExitDecision(Head(scan), r, DaysHeld(Head(scan), today)).exit_type = "TARGET HIT"
       /\ Evaluate(Head(scan), r)

\* lines 93-94
CheckNoTarget ==
  /\ pc = "exits" /\ scan # <<>>
  /\ MayHaveBar(Head(scan), today)
  /\ \E r \in Bars :
       /\ ExitDecision(Head(scan), r, DaysHeld(Head(scan), today)).exit_type = "NO_TARGET"
       /\ Evaluate(Head(scan), r)

\* line 99 false: no branch of the chain fired, the position stays open
CheckHold ==
  /\ pc = "exits" /\ scan # <<>>
  /\ MayHaveBar(Head(scan), today)
  /\ \E r \in Bars :
       /\ ExitDecision(Head(scan), r, DaysHeld(Head(scan), today)) = NoExit
       /\ Evaluate(Head(scan), r)

\* ---------------------------------------------------------------- entry pass
\* variant: the entry pass starts while positions remain to be examined
BeginEntriesEarly ==
  /\ pc = "exits"
  /\ pc' = "entries"
  /\ calls' = GroupOf(today)
  /\ pos' = NoPos /\ row' = NoBar
  /\ UNCHANGED <<df, loop_i, swing_trades, det_pc, exit_bar, trades, all_dates, day_no, scan, capital, open_positions, completed,
                 SKIPS_ALREADY_HOLDED, SKIPS_NO_CAP, TRADES_ENTERED, TRADES_EXITED>>

\* line 124-125: the exit pass is over, take the signals due today
\* (pos and row of the exit pass are dead from here on and are cleared)
BeginEntries ==
  /\ pc = "exits" /\ scan = <<>>
  /\ pc' = "entries"
  /\ calls' = GroupOf(today)
  /\ pos' = NoPos /\ row' = NoBar
  /\ UNCHANGED <<df, loop_i, swing_trades, det_pc, exit_bar, trades, all_dates, day_no, scan, capital, open_positions, completed,
                 SKIPS_ALREADY_HOLDED, SKIPS_NO_CAP, TRADES_ENTERED, TRADES_EXITED>>

\* variant: the check looks at the snapshot of the exit pass, not at the live list
AlreadyHoldingStale(symbol) ==
  \E i \in 1..Len(scan) : scan[i].symbol = symbol

AlreadyHolding(symbol) ==
  \E i \in 1..Len(open_positions) : open_positions[i].symbol = symbol

RiskPerShare(call) == call.entry_price - call.stop_loss
\* variant: the quantity is rounded up
QuantityCeil(risk_sh) ==
  IF risk_sh > 0 THEN (MAX_RISK_PER_TRADE + risk_sh - 1) \div risk_sh ELSE 0
Quantity(risk_sh) == IF risk_sh > 0 THEN MAX_RISK_PER_TRADE \div risk_sh ELSE 0
Cost(call) == call.entry_price * Quantity(RiskPerShare(call))
\* variant: a cost equal to the capital is refused
NoCapStrict(call) == Quantity(RiskPerShare(call)) < 1 \/ Cost(call) >= capital
NoCap(call) == Quantity(RiskPerShare(call)) < 1 \/ Cost(call) > capital

EntrySkipHeld ==
  /\ pc = "entries" /\ calls # <<>>
  /\ AlreadyHolding(Head(calls).symbol)
  /\ SKIPS_ALREADY_HOLDED' = SKIPS_ALREADY_HOLDED + 1
  /\ calls' = Tail(calls)
  /\ UNCHANGED <<df, loop_i, swing_trades, det_pc, exit_bar, trades, all_dates, day_no, pc, scan, pos, row, capital, open_positions, completed,
                 SKIPS_NO_CAP, TRADES_ENTERED, TRADES_EXITED>>

\* variant: the cost is deducted before the signal is refused
EntrySkipNoCapCharged ==
  /\ pc = "entries" /\ calls # <<>>
  /\ ~AlreadyHolding(Head(calls).symbol)
  /\ NoCap(Head(calls))
  /\ capital' = capital - Cost(Head(calls))
  /\ SKIPS_NO_CAP' = SKIPS_NO_CAP + 1
  /\ calls' = Tail(calls)
  /\ UNCHANGED <<df, loop_i, swing_trades, det_pc, exit_bar, trades, all_dates, day_no, pc, scan, pos, row, open_positions, completed,
                 SKIPS_ALREADY_HOLDED, TRADES_ENTERED, TRADES_EXITED>>

EntrySkipNoCap ==
  /\ pc = "entries" /\ calls # <<>>
  /\ ~AlreadyHolding(Head(calls).symbol)
  /\ NoCap(Head(calls))
  /\ SKIPS_NO_CAP' = SKIPS_NO_CAP + 1
  /\ calls' = Tail(calls)
  /\ UNCHANGED <<df, loop_i, swing_trades, det_pc, exit_bar, trades, all_dates, day_no, pc, scan, pos, row, capital, open_positions, completed,
                 SKIPS_ALREADY_HOLDED, TRADES_ENTERED, TRADES_EXITED>>

\* lines 145-155; df_future starts with the bar of the entry date
NewPosition(call, d, o) ==
  [symbol |-> call.symbol, entry_date |-> d, entry_price |-> call.entry_price,
   stop_loss |-> call.stop_loss, target |-> call.target,
   qty |-> Quantity(RiskPerShare(call)), hit |-> FALSE,
   price_df |-> [inst |-> call.instrument_key, date |-> d, open |-> o]]

\* variant: the cost of the position is not held against capital
EntryAcceptOnMargin ==
  /\ pc = "entries" /\ calls # <<>>
  /\ ~AlreadyHolding(Head(calls).symbol)
  /\ Quantity(RiskPerShare(Head(calls))) >= 1
  /\ \E o \in BarPrices :
       /\ pos' = NewPosition(Head(calls), today, o)
       /\ open_positions' = Append(open_positions, pos')
  /\ capital' = capital - Cost(Head(calls))
  /\ TRADES_ENTERED' = TRADES_ENTERED + 1
  /\ calls' = Tail(calls)
  /\ UNCHANGED <<df, loop_i, swing_trades, det_pc, exit_bar, trades, all_dates, day_no, pc, scan, row, completed,
                 SKIPS_ALREADY_HOLDED, SKIPS_NO_CAP, TRADES_EXITED>>

EntryAccept ==
  /\ pc = "entries" /\ calls # <<>>
  /\ ~AlreadyHolding(Head(calls).symbol)
  /\ ~NoCap(Head(calls))
  /\ \E o \in BarPrices :
       /\ pos' = NewPosition(Head(calls), today, o)
       /\ open_positions' = Append(open_positions, pos')
  /\ capital' = capital - Cost(Head(calls))
  /\ TRADES_ENTERED' = TRADES_ENTERED + 1
  /\ calls' = Tail(calls)
  /\ UNCHANGED <<df, loop_i, swing_trades, det_pc, exit_bar, trades, all_dates, day_no, pc, scan, row, completed,
                 SKIPS_ALREADY_HOLDED, SKIPS_NO_CAP, TRADES_EXITED>>

\* variant: the exit pass is run again on the same day, over the positions
\* the entry pass has just opened
NextDayRescan ==
  /\ pc = "entries" /\ calls = <<>>
  /\ day_no < Len(all_dates)
  /\ day_no' = day_no
  /\ pc' = "exits"
  /\ scan' = open_positions
  /\ UNCHANGED <<df, loop_i, swing_trades, det_pc, exit_bar, trades, all_dates, calls, pos, row, capital, open_positions, completed,
                 SKIPS_ALREADY_HOLDED, SKIPS_NO_CAP, TRADES_ENTERED, TRADES_EXITED>>

\* line 60: the next date of the calendar
NextDay ==
  /\ pc = "entries" /\ calls = <<>>
  /\ day_no < Len(all_dates)
  /\ day_no' = day_no + 1
  /\ pc' = "exits"
  /\ scan' = open_positions
  /\ UNCHANGED <<df, loop_i, swing_trades, det_pc, exit_bar, trades, all_dates, calls, pos, row, capital, open_positions, completed,
                 SKIPS_ALREADY_HOLDED, SKIPS_NO_CAP, TRADES_ENTERED, TRADES_EXITED>>

\* ---------------------------------------------------------------- force exit
\* lines 161-163: the calendar is exhausted
BeginForceExit ==
  /\ pc = "entries" /\ calls = <<>>
  /\ day_no = Len(all_dates)
  /\ pc' = "force"
  /\ scan' = open_positions
  /\ UNCHANGED <<df, loop_i, swing_trades, det_pc, exit_bar, trades, all_dates, day_no, calls, pos, row, capital, open_positions, completed,
                 SKIPS_ALREADY_HOLDED, SKIPS_NO_CAP, TRADES_ENTERED, TRADES_EXITED>>

\* lines 171-191: no open_positions.remove here
CloseForce(p, exit_price) ==
  LET charges == ChargesOf(p, exit_price)
      pnl == PnlOf(p, exit_price)
  IN  /\ \E c2 \in Round2(charges), p2 \in Round2(pnl) :
            completed' = Append(completed,
                                TradeRecord(p, final_date, exit_price, "EOD_EXIT", c2, p2))
      /\ capital' = capital + (exit_price * p.qty - charges)
      /\ TRADES_EXITED' = TRADES_EXITED + 1
      /\ UNCHANGED open_positions

\* df.iloc[-1] of the frame of p: the newest bar the day loop has read, or a
\* bar after it on a date the loop never looked up
LastBars(p) ==
  { [date |-> p.price_df.date, open |-> p.price_df.open] } \cup
  { [date |-> d, open |-> o] :
      d \in { u \in UnreadBarDates :
                /\ u > p.price_df.date
                /\ \A k \in 1..Len(all_dates) : all_dates[k] # u },
      o \in BarPrices }

\* variant: the position is closed at the level and date it was entered
ForceExitBarEntry(p, lb) == [date |-> p.entry_date, open |-> p.entry_price]

\* lines 164-170: the bar dated final_date when the frame has one, else
\* df.iloc[-1] (lb)
ForceExitBar(p, lb) ==
  IF p.price_df.date = final_date
  THEN [date |-> final_date, open |-> p.price_df.open]
  ELSE lb

ForceExit ==
  /\ pc = "force" /\ scan # <<>>
  /\ pos' = Head(scan)
  /\ \E lb \in LastBars(Head(scan)) :
       /\ exit_bar' = ForceExitBar(Head(scan), lb)
       /\ CloseForce(Head(scan), exit_bar'.open)
  /\ scan' = Tail(scan)
  /\ UNCHANGED <<df, loop_i, swing_trades, det_pc, trades, all_dates, day_no, pc, calls, row,
                 SKIPS_ALREADY_HOLDED, SKIPS_NO_CAP, TRADES_ENTERED>>

\* line 194 on: the ledger is final
Finish ==
  /\ pc = "force" /\ scan = <<>>
  /\ pc' = "done"
  /\ UNCHANGED <<df, loop_i, swing_trades, det_pc, exit_bar, trades, all_dates, day_no, scan, calls, pos, row, capital, open_positions, completed,
                 SKIPS_ALREADY_HOLDED, SKIPS_NO_CAP, TRADES_ENTERED, TRADES_EXITED>>

\* ---------------------------------------------------------------- specification
Init ==
  /\ trades \in SignalLists
  /\ all_dates = TradingCalendar(trades)
  /\ day_no = 1
  /\ pc = "exits"
  /\ scan = <<>>
  /\ calls = <<>>
  /\ pos = NoPos /\ row = NoBar
  /\ exit_bar = [date |-> -1, open |-> -1]
  /\ df = <<>> /\ loop_i = 0 /\ swing_trades = <<>> /\ det_pc = "off"
  /\ capital = INITIAL_CAPITAL
  /\ open_positions = <<>>
  /\ completed = <<>>
  /\ SKIPS_ALREADY_HOLDED = 0 /\ SKIPS_NO_CAP = 0
  /\ TRADES_ENTERED = 0 /\ TRADES_EXITED = 0

Next ==
  \/ CheckNoBar
  \/ CheckStopLoss
  \/ CheckTarget
  \/ CheckNoTarget
  \/ CheckHold
  \/ BeginEntries
  \/ EntrySkipHeld
  \/ EntrySkipNoCap
  \/ EntryAccept
  \/ NextDay
  \/ BeginForceExit
  \/ ForceExit
  \/ Finish

Spec == Init /\ [][Next]_vars

\* the script runs to its end: some step is always taken while one is enabled
FairSpec == Spec /\ WF_vars(Next)

\* ------------------------------------------------- detector (stock_pick.py)
\* Prices are in units of 1/1000 rupee, like those of the backtest. A bar is a
\* row of the frame; its date is the number of its session.
MA_PERIOD == 44
MAX_TOUCH_DAYS == 7
\* SUPPORT_TOLERANCE = 0.005 = 1 / 200, also the breakout margin of line 107
TOLERANCE_DIV == 200

\* number of bars that vary at the end of the generated series
TailLen == 3

\* the level of the quiet part of a series: 100 rupees, half a rupee
BasePrices == {100000, 500}

Bar(o, h, l, c) == [open |-> o, high |-> h, low |-> l, close |-> c]

\* the bars a series is made of, for a base price P: each has
\* low <= open, close <= high
Quiet(P) == Bar(P, P, P, P)
Elevated(P) == Bar(P + 3 * (P \div 100), P + 3 * (P \div 100),
                   P + 3 * (P \div 100), P + 3 * (P \div 100))
BarShapes(P) ==
  IF P = 100000
  THEN { Quiet(P),
         Bar(100000, 101000, 100000, 101000),
         Bar(101000, 102400, 100500, 102000),
         Bar(102000, 104000, 101500, 103500),
         Bar(101000, 101000, 100200, 100200) }
  ELSE { Quiet(P),
         Bar(501, 502, 501, 502),
         Bar(504, 506, 504, 506),
         Bar(502, 510, 502, 510),
         Bar(510, 510, 501, 501) }

\* the shortest quiet lead after which the first varying bar is scanned
LeadLen == (MA_PERIOD - 1) + MA_PERIOD + MAX_TOUCH_DAYS

Dated(bars) ==
  [k \in 1..Len(bars) |->
     [date |-> k, open |-> bars[k].open, high |-> bars[k].high,
      low |-> bars[k].low, close |-> bars[k].close]]

\* an input frame of base price P: a quiet lead whose last MAX_TOUCH_DAYS
\* bars are quiet or elevated, then the TailLen free bars, then quiet bars up
\* to LeadLen + TailLen bars in all. With lead = LeadLen the free bars are the
\* last of the series, with a shorter lead they lie that much earlier.
Series(P, lead, elevated, tail) ==
  Dated([k \in 1..(lead - MAX_TOUCH_DAYS) |-> Quiet(P)]
        \o [k \in 1..MAX_TOUCH_DAYS |-> IF elevated THEN Elevated(P) ELSE Quiet(P)]
        \o tail
        \o [k \in 1..(LeadLen - lead) |-> Quiet(P)])

\* lines 77-78: rolling(MA_PERIOD).mean() and dropna. The row keeps the sum of
\* the MA_PERIOD closes that end at it (ma44 = ma44_sum / MA_PERIOD), so that
\* the comparisons of the filters are exact; the rows without a full window
\* are dropped.
RECURSIVE SumClose(_, _, _)
SumClose(bars, from, to) ==
  IF from > to THEN 0 ELSE bars[from].close + SumClose(bars, from + 1, to)

RollingMean(bars) ==
  [k \in 1..(Len(bars) - (MA_PERIOD - 1)) |->
     LET bar == bars[k + MA_PERIOD - 1]
     IN  [date |-> bar.date, open |-> bar.open, high |-> bar.high,
          low |-> bar.low, close |-> bar.close,
          ma44_sum |-> SumClose(bars, k, k + MA_PERIOD - 1)]]

\* df.iloc[n], n counted from 0
Iloc(n) == df[n + 1]

\* line 87: today's mean is above the previous one
TrendUp(n) == Iloc(n).ma44_sum > Iloc(n - 1).ma44_sum

\* line 94: the bar reaches into the band of SUPPORT_TOLERANCE around its mean
InBand(cand) ==
  /\ cand.low * MA_PERIOD * TOLERANCE_DIV <= cand.ma44_sum * (TOLERANCE_DIV + 1)
  /\ cand.high * MA_PERIOD * TOLERANCE_DIV >= cand.ma44_sum * (TOLERANCE_DIV - 1)

\* lines 91-96: one of the MAX_TOUCH_DAYS bars before n is in the band
Touched(n) == \E j \in (n - MAX_TOUCH_DAYS)..(n - 1) : InBand(Iloc(j))

\* lines 101-102: positive body and close above the mean
Bullish(n) ==
  /\ Iloc(n).close - Iloc(n).open > 0
  /\ Iloc(n).close * MA_PERIOD > Iloc(n).ma44_sum

\* line 107: the next high is above today's high * 1.005
Breakout(n) ==
  Iloc(n + 1).high * TOLERANCE_DIV > Iloc(n).high * (TOLERANCE_DIV + 1)

\* line 111: round(high * 1.005, 2); at an exact decimal tie the binary value of
\* the float decides, so either neighbour can come out
EntryPrice(high) ==
  LET micro == high * 1005
      r == micro % 10000
      base == (micro - r) \div 1000
  IN  IF r < 5000 THEN {base}
      ELSE IF r > 5000 THEN {base + 10}
      ELSE {base, base + 10}

\* line 112
StopLevel(n) ==
  IF Iloc(n - 1).low < Iloc(n).low THEN Iloc(n - 1).low ELSE Iloc(n).low

\* lines 111-124: the dicts that can be appended for day n
Signals(n) ==
  UNION { { [symbol |-> "A", instrument_key |-> "A",
             signal_date |-> Iloc(n).date, entry_date |-> Iloc(n + 1).date,
             entry_price |-> e2, stop_loss |-> s2, target |-> t2] :
              e2 \in Round2(entry_price),
              s2 \in Round2(StopLevel(n)),
              t2 \in Round2(entry_price + 2 * (entry_price - StopLevel(n))) } :
          entry_price \in EntryPrice(Iloc(n).high) }

\* lines 76-79
Prepare ==
  /\ det_pc = "start"
  /\ df' = RollingMean(df)
  /\ swing_trades' = <<>>
  /\ loop_i' = MA_PERIOD + MAX_TOUCH_DAYS
  /\ det_pc' = "scan"
  /\ UNCHANGED btvars

\* line 82: the loop variable is in range(MA_PERIOD + MAX_TOUCH_DAYS, len(df) - 1)
InLoop == det_pc = "scan" /\ loop_i < Len(df) - 1

Continue ==
  /\ loop_i' = loop_i + 1
  /\ UNCHANGED <<df, det_pc>>
  /\ UNCHANGED btvars

\* lines 87-88
SkipTrend ==
  /\ InLoop
  /\ ~TrendUp(loop_i)
  /\ UNCHANGED swing_trades
  /\ Continue

\* lines 97-98
SkipNoTouch ==
  /\ InLoop
  /\ TrendUp(loop_i) /\ ~Touched(loop_i)
  /\ UNCHANGED swing_trades
  /\ Continue

\* lines 101-103
SkipNotBullish ==
  /\ InLoop
  /\ TrendUp(loop_i) /\ Touched(loop_i) /\ ~Bullish(loop_i)
  /\ UNCHANGED swing_trades
  /\ Continue

\* lines 106-108
SkipNoBreakout ==
  /\ InLoop
  /\ TrendUp(loop_i) /\ Touched(loop_i) /\ Bullish(loop_i) /\ ~Breakout(loop_i)
  /\ UNCHANGED swing_trades
  /\ Continue

\* lines 110-124
Emit ==
  /\ InLoop
  /\ TrendUp(loop_i) /\ Touched(loop_i) /\ Bullish(loop_i) /\ Breakout(loop_i)
  /\ \E sig \in Signals(loop_i) : swing_trades' = Append(swing_trades, sig)
  /\ Continue

\* lines 126-127: the range is exhausted
Return ==
  /\ det_pc = "scan" /\ loop_i >= Len(df) - 1
  /\ det_pc' = "done"
  /\ UNCHANGED <<df, loop_i, swing_trades>>
  /\ UNCHANGED btvars

\* a call of detect_swing_trades on one of the input frames; the backtest
\* script is not running
DetInit ==
  /\ \E P \in BasePrices, lead \in {LeadLen, LeadLen - TailLen - 1},
        elevated \in BOOLEAN :
       \E tail \in [1..TailLen -> BarShapes(P)] :
         df = Series(P, lead, elevated, tail)
  /\ loop_i = 0 /\ swing_trades = <<>> /\ det_pc = "start"
  /\ trades = <<>> /\ all_dates = <<>> /\ day_no = 0 /\ pc = "off"
  /\ scan = <<>> /\ calls = <<>>
  /\ pos = NoPos /\ row = NoBar
  /\ exit_bar = [date |-> -1, open |-> -1]
  /\ capital = INITIAL_CAPITAL
  /\ open_positions = <<>> /\ completed = <<>>
  /\ SKIPS_ALREADY_HOLDED = 0 /\ SKIPS_NO_CAP = 0
  /\ TRADES_ENTERED = 0 /\ TRADES_EXITED = 0

DetNext ==
  \/ Prepare
  \/ SkipTrend
  \/ SkipNoTouch
  \/ SkipNotBullish
  \/ SkipNoBreakout
  \/ Emit
  \/ Return

DetSpec == DetInit /\ [][DetNext]_vars

\* ---------------------------------------------------------------- properties
Last(q) == q[Len(q)]
IsOpen(symbol) == \E i \in 1..Len(open_positions) : open_positions[i].symbol = symbol

\* C1: open_positions never holds two positions of the same symbol; a signal
\* whose symbol is already held does not add a position.
C1_OnePositionPerSymbol ==
  \A i \in 1..Len(open_positions) : \A j \in 1..Len(open_positions) :
    i # j => open_positions[i].symbol # open_positions[j].symbol

\* a signal of a held symbol has been refused while the position stays open
C1_Witness ==
  /\ pc = "entries"
  /\ SKIPS_ALREADY_HOLDED >= 1
  /\ Len(open_positions) = 1

\* C2: every opened position yields exactly one trade record, from a rule exit
\* or from the force close, never both and never twice; the run ends, and then
\* len(completed) = TRADES_ENTERED = TRADES_EXITED.
C2_Ledger ==
  /\ \A i \in 1..Len(completed) : \A j \in 1..Len(completed) :
       i # j => \/ completed[i].symbol # completed[j].symbol
                \/ completed[i].entry_date # completed[j].entry_date
  /\ pc \in {"exits", "entries"} =>
       /\ Len(completed) + Len(open_positions) = TRADES_ENTERED
       /\ \A i \in 1..Len(completed) : \A j \in 1..Len(open_positions) :
            \/ completed[i].symbol # open_positions[j].symbol
            \/ completed[i].entry_date # open_positions[j].entry_date
  /\ pc = "force" => Len(completed) + Len(scan) = TRADES_ENTERED
  /\ Len(completed) = TRADES_EXITED
  /\ pc = "done" => Len(completed) = TRADES_ENTERED /\ TRADES_ENTERED = TRADES_EXITED

C2_EveryPositionOneRecord == [](C2_Ledger) /\ <>(pc = "done")

\* the run has ended with one position closed by a rule and one by the force close
C2_Witness ==
  /\ pc = "done"
  /\ TRADES_ENTERED = 2
  /\ \E i \in 1..Len(completed) : completed[i].reason = "EOD_EXIT"
  /\ \E i \in 1..Len(completed) : completed[i].reason = "SL"

\* C3: at the end of the run TRADES_ENTERED + SKIPS_ALREADY_HOLDED +
\* SKIPS_NO_CAP equals the number of signals loaded.
C3_AllSignalsCounted ==
  pc = "done" =>
    TRADES_ENTERED + SKIPS_ALREADY_HOLDED + SKIPS_NO_CAP = TOTAL_CALLS_IN_CSV

\* C4: when the bar of the day has low <= stop_loss the position is closed that
\* day at stop_loss with reason SL, whatever the bar's high and the days held;
\* a position gets at most one exit per day.
C4_StopLossFirst ==
  /\ (pc = "exits" /\ row # NoBar /\ row.low <= pos.stop_loss) =>
       /\ completed # <<>>
       /\ Last(completed).symbol = pos.symbol
       /\ Last(completed).entry_date = pos.entry_date
       /\ Last(completed).exit_date = today
       /\ Last(completed).exit_price = pos.stop_loss
       /\ Last(completed).reason = "SL"
       /\ ~IsOpen(pos.symbol)
  /\ \A i \in 1..Len(completed) : \A j \in 1..Len(completed) :
       i # j => \/ completed[i].symbol # completed[j].symbol
                \/ completed[i].exit_date # completed[j].exit_date

\* a bar that reaches both the stop and the target, past the no-target threshold
C4_Witness ==
  /\ pc = "exits" /\ row # NoBar
  /\ row.low <= pos.stop_loss /\ row.high >= pos.target
  /\ today - pos.entry_date >= EXIT_NO_TARGET_DAYS
  /\ Last(completed).reason = "SL"

\* C5 (as stated): the pnl of every trade record is qty * (exit_price -
\* entry_price) - charges with charges = 0.00015 * buy_value + 0.001 *
\* (buy_value + sell_value) + 14.75.
C5_PnlExact ==
  \A i \in 1..Len(completed) :
    LET rec == completed[i]
        buy_value == rec.entry_price * rec.qty
        sell_value == rec.exit_price * rec.qty
        charges == (3 * buy_value) \div 20000 + (buy_value + sell_value) \div 1000 + 14750
    IN  rec.pnl = rec.qty * (rec.exit_price - rec.entry_price) - charges

\* C5 (amended): the record holds the charges of the formula and the pnl
\* qty * (exit_price - entry_price) - charges, each rounded to 2 decimals.
C5_PnlRounded ==
  \A i \in 1..Len(completed) :
    LET rec == completed[i]
        buy_value == rec.entry_price * rec.qty
        sell_value == rec.exit_price * rec.qty
        charges == (3 * buy_value) \div 20000 + (buy_value + sell_value) \div 1000 + 14750
        pnl == rec.qty * (rec.exit_price - rec.entry_price) - charges
    IN  /\ (3 * buy_value) % 20000 = 0 /\ (buy_value + sell_value) % 1000 = 0
        /\ rec.charges % 10 = 0 /\ rec.pnl % 10 = 0
        /\ rec.charges - charges <= 5 /\ charges - rec.charges <= 5
        /\ rec.pnl - pnl <= 5 /\ pnl - rec.pnl <= 5

\* a rule exit and a force exit are both in the ledger, one with charges that
\* are not a whole number of paise
C5_Witness ==
  /\ \E i \in 1..Len(completed) : completed[i].reason = "EOD_EXIT"
  /\ \E i \in 1..Len(completed) :
       /\ completed[i].reason # "EOD_EXIT"
       /\ completed[i].pnl # completed[i].qty * (completed[i].exit_price - completed[i].entry_price)
                             - ChargesOf(completed[i], completed[i].exit_price)

\* C6: on a day with a bar, days_held >= EXIT_NO_TARGET_DAYS and neither stop
\* nor target reached, the position is closed at the bar's low with reason
\* NO_TARGET; no position is open at the end of a day on which its instrument
\* had a bar and days_held >= EXIT_NO_TARGET_DAYS.
C6_NoTargetExit ==
  /\ (/\ pc = "exits" /\ row # NoBar
      /\ today - pos.entry_date >= EXIT_NO_TARGET_DAYS
      /\ row.low > pos.stop_loss /\ row.high < pos.target) =>
       /\ completed # <<>>
       /\ Last(completed).symbol = pos.symbol
       /\ Last(completed).entry_date = pos.entry_date
       /\ Last(completed).exit_date = today
       /\ Last(completed).exit_price = row.low
       /\ Last(completed).reason = "NO_TARGET"
       /\ ~IsOpen(pos.symbol)
  /\ pc = "entries" =>
       \A i \in 1..Len(open_positions) :
         open_positions[i].price_df.date = today =>
           today - open_positions[i].entry_date < EXIT_NO_TARGET_DAYS

\* a quiet bar on the day the position is held exactly EXIT_NO_TARGET_DAYS
C6_Witness ==
  /\ pc = "exits" /\ row # NoBar
  /\ today - pos.entry_date = EXIT_NO_TARGET_DAYS
  /\ row.low > pos.stop_loss /\ row.high < pos.target
  /\ Last(completed).reason = "NO_TARGET"

\* C7 (as stated): the loss recorded for a trade closed with reason SL is at
\* most MAX_RISK_PER_TRADE.
C7_StopLossLossCapped ==
  \A i \in 1..Len(completed) :
    completed[i].reason = "SL" => 0 - completed[i].pnl <= MAX_RISK_PER_TRADE

\* C7 (amended): for a trade closed with reason SL the loss before charges,
\* qty * (entry_price - stop_loss), is at most MAX_RISK_PER_TRADE; the recorded
\* loss is that amount plus the charges.
C7_GrossLossCapped ==
  \A i \in 1..Len(completed) :
    LET rec == completed[i]
        gross == rec.qty * (rec.entry_price - rec.exit_price)
    IN  rec.reason = "SL" =>
          /\ gross <= MAX_RISK_PER_TRADE
          /\ (0 - rec.pnl) - (gross + rec.charges) <= 10
          /\ (gross + rec.charges) - (0 - rec.pnl) <= 10

\* a stop-loss exit whose loss before charges is the whole risk budget
C7_Witness ==
  \E i \in 1..Len(completed) :
    /\ completed[i].reason = "SL"
    /\ completed[i].qty * (completed[i].entry_price - completed[i].exit_price)
         = MAX_RISK_PER_TRADE

\* C8: a signal is accepted iff no open position has its symbol, risk_per_share
\* = entry_price - stop_loss > 0, qty = floor(MAX_RISK_PER_TRADE /
\* risk_per_share) >= 1 and entry_price * qty <= capital; an accepted signal
\* opens a position of exactly that qty and takes entry_price * qty off capital.
C8_AcceptIff ==
  [][(pc = "entries" /\ calls # <<>>) =>
       LET call == Head(calls)
           risk_per_share == call.entry_price - call.stop_loss
           qty == IF risk_per_share > 0 THEN MAX_RISK_PER_TRADE \div risk_per_share ELSE 0
           ok == /\ ~IsOpen(call.symbol)
                 /\ risk_per_share > 0
                 /\ qty >= 1
                 /\ call.entry_price * qty <= capital
       IN  /\ (TRADES_ENTERED' = TRADES_ENTERED + 1) <=> ok
           /\ (Len(open_positions') = Len(open_positions) + 1) <=> ok
           /\ ok => /\ Last(open_positions').symbol = call.symbol
                    /\ Last(open_positions').qty = qty
                    /\ Last(open_positions').entry_price = call.entry_price
                    /\ Last(open_positions').entry_date = today
                    /\ SubSeq(open_positions', 1, Len(open_positions)) = open_positions
                    /\ capital' = capital - call.entry_price * qty
           /\ ~ok => TRADES_ENTERED' = TRADES_ENTERED /\ open_positions' = open_positions
     ]_vars

\* a signal whose cost is exactly the whole capital has been accepted
C8_Witness ==
  /\ pc = "entries"
  /\ pos # NoPos
  /\ pos.entry_price * pos.qty = INITIAL_CAPITAL
  /\ capital = 0
  /\ IsOpen(pos.symbol)

\* C9: a rejected signal leaves capital, open_positions and the ledger
\* unchanged, the step is taken without an error (also when the risk is 0),
\* and exactly one skip counter goes up by one.
C9_RejectIsLocal ==
  /\ [](pc = "entries" /\ calls # <<>> =>
          ENABLED (EntrySkipHeld \/ EntrySkipNoCap \/ EntryAccept))
  /\ [][(pc = "entries" /\ calls # <<>> /\ TRADES_ENTERED' = TRADES_ENTERED) =>
          /\ capital' = capital
          /\ open_positions' = open_positions
          /\ completed' = completed
          /\ TRADES_EXITED' = TRADES_EXITED
          /\ calls' = Tail(calls)
          /\ \/ /\ SKIPS_ALREADY_HOLDED' = SKIPS_ALREADY_HOLDED + 1
                /\ SKIPS_NO_CAP' = SKIPS_NO_CAP
             \/ /\ SKIPS_NO_CAP' = SKIPS_NO_CAP + 1
                /\ SKIPS_ALREADY_HOLDED' = SKIPS_ALREADY_HOLDED
        ]_vars

\* a signal of risk 0 has been refused and the day goes on
C9_Witness ==
  /\ pc = "entries"
  /\ SKIPS_NO_CAP = 1 /\ TRADES_ENTERED = 0 /\ SKIPS_ALREADY_HOLDED = 0
  /\ Len(trades) = 1
  /\ trades[1].entry_price = trades[1].stop_loss
  /\ calls = <<>>
  /\ capital = INITIAL_CAPITAL

\* C10: when the force close has finished, open_positions is empty.
C10_NoPositionSurvives ==
  pc = "done" => open_positions = <<>>

\* C13: a step of the exit pass that finds no bar for today in the frame of
\* the position under examination changes nothing: the list of open positions
\* (hence stop_loss, target, qty and hit of the position), capital, the ledger
\* and TRADES_EXITED are the same after it, whatever days_held is.
C13_MissingBarNoOp ==
  [][(pc = "exits" /\ scan # <<>> /\ row' = NoBar) =>
        /\ pos' = Head(scan)
        /\ open_positions' = open_positions
        /\ capital' = capital
        /\ completed' = completed
        /\ TRADES_EXITED' = TRADES_EXITED
    ]_vars

\* a position at or past the holding limit has just been looked up on a day
\* without a bar, and is still open
C13_Witness ==
  /\ pc = "exits" /\ row = NoBar /\ pos # NoPos
  /\ DaysHeld(pos, today) >= EXIT_NO_TARGET_DAYS
  /\ \E k \in 1..Len(open_positions) : open_positions[k] = pos

\* the unrounded pnl of a record, the buy value of a list of positions
RecordPnl(rec) ==
  LET buy_value == rec.entry_price * rec.qty
      sell_value == rec.exit_price * rec.qty
  IN  sell_value - buy_value
        - ((3 * buy_value) \div 20000 + (buy_value + sell_value) \div 1000 + 14750)

RECURSIVE SumPnl(_)
SumPnl(q) == IF q = <<>> THEN 0 ELSE RecordPnl(Head(q)) + SumPnl(Tail(q))

RECURSIVE SumCost(_)
SumCost(q) ==
  IF q = <<>> THEN 0 ELSE Head(q).entry_price * Head(q).qty + SumCost(Tail(q))

\* C14: the days are taken in strictly ascending order; the entry pass of a
\* day runs only when its exit pass is over and closes nothing; a signal due
\* today whose symbol was closed today (and not re-entered today) is not
\* counted as a duplicate; and while the entries of a day are examined,
\* capital already holds sell_value - charges of every exit so far, those of
\* today included.
C14_ExitsBeforeEntries ==
  /\ [](\A k \in 1..(Len(all_dates) - 1) : all_dates[k] < all_dates[k + 1])
  /\ [][day_no' # day_no => (day_no' = day_no + 1 /\ pc = "entries" /\ calls = <<>>)]_vars
  /\ [](pc = "entries" => scan = <<>>)
  /\ [](pc = "entries" =>
          capital = INITIAL_CAPITAL + SumPnl(completed) - SumCost(open_positions))
  /\ [][(pc = "entries" /\ pc' = "entries") =>
          /\ completed' = completed
          /\ ( ( /\ calls # <<>>
                 /\ \E k \in 1..Len(completed) :
                       /\ completed[k].symbol = Head(calls).symbol
                       /\ completed[k].exit_date = today
                 /\ ~\E k \in 1..Len(open_positions) :
                        /\ open_positions[k].symbol = Head(calls).symbol
                        /\ open_positions[k].entry_date = today )
               => SKIPS_ALREADY_HOLDED' = SKIPS_ALREADY_HOLDED )
      ]_vars

\* a symbol closed by today's exit pass has been entered again by today's
\* entry pass
C14_Witness ==
  /\ pc = "entries"
  /\ completed # <<>> /\ Last(completed).exit_date = today
  /\ TRADES_ENTERED = 2 /\ SKIPS_ALREADY_HOLDED = 0
  /\ \E k \in 1..Len(open_positions) :
        /\ open_positions[k].symbol = Last(completed).symbol
        /\ open_positions[k].entry_date = today

\* C16: in every state, capital plus the buy value of the positions in
\* open_positions equals INITIAL_CAPITAL plus the unrounded pnl of the records
\* of the ledger.
C16_CapitalConserved ==
  capital + SumCost(open_positions) = INITIAL_CAPITAL + SumPnl(completed)

\* C15: each step of the force close takes the next position that was open
\* when the calendar ran out and appends one record for it with reason
\* EOD_EXIT and exit_date = final_date; the exit price is the open of the bar
\* dated final_date when the frame has one, else the open of the last bar of
\* the frame (no older than the newest bar the run has read); capital grows by
\* sell_value - charges; and at the end every such position has its record.
C15_ForceClose ==
  /\ [][(pc = "force" /\ scan # <<>>) =>
          LET p == Head(scan)
              rec == Last(completed')
              sell_val == rec.exit_price * p.qty
          IN  /\ Len(completed') = Len(completed) + 1
              /\ SubSeq(completed', 1, Len(completed)) = completed
              /\ rec.symbol = p.symbol /\ rec.entry_date = p.entry_date
              /\ rec.qty = p.qty /\ rec.entry_price = p.entry_price
              /\ rec.reason = "EOD_EXIT"
              /\ rec.exit_date = final_date
              /\ rec.exit_price = exit_bar'.open
              /\ exit_bar'.date >= p.price_df.date
              /\ (p.price_df.date = final_date =>
                    exit_bar' = [date |-> final_date, open |-> p.price_df.open])
              /\ capital' = capital + sell_val
                              - calculate_charges(p.entry_price * p.qty, sell_val)
      ]_vars
  /\ [](pc = "done" =>
          \A k \in 1..Len(open_positions) : \E j \in 1..Len(completed) :
            /\ completed[j].symbol = open_positions[k].symbol
            /\ completed[j].entry_date = open_positions[k].entry_date
            /\ completed[j].reason = "EOD_EXIT")

\* after a rule exit earlier in the run, a position open at the end has been
\* force-closed at the open of a bar newer than the last one the day loop read
C15_Witness ==
  /\ pc = "done"
  /\ Len(completed) = 2
  /\ completed[1].reason = "SL" /\ completed[2].reason = "EOD_EXIT"
  /\ completed[2].exit_price = exit_bar.open
  /\ exit_bar.date > pos.price_df.date
  /\ exit_bar.open # pos.price_df.open

\* C17: capital >= 0 in every state of a run whose signals all have
\* entry_price > stop_loss >= 0.
C17_CapitalNonNegative ==
  (\A k \in 1..Len(trades) :
      trades[k].entry_price > trades[k].stop_loss /\ trades[k].stop_loss >= 0)
    => capital >= 0

\* C17 (amended): an entry never leaves capital below 0; any other step that
\* lowers capital is an exit (rule or force) whose charges exceed its
\* sell_value, and it lowers capital by exactly charges - sell_value.
C17_OnlyExitsOverdraw ==
  /\ [][TRADES_ENTERED' # TRADES_ENTERED =>
          (capital' >= 0 /\ capital' = capital - Last(open_positions').entry_price
                                                * Last(open_positions').qty)]_vars
  /\ [][(TRADES_ENTERED' = TRADES_ENTERED /\ capital' < capital) =>
          LET rec == Last(completed')
              buy_value == rec.entry_price * rec.qty
              sell_value == rec.exit_price * rec.qty
              charges == calculate_charges(buy_value, sell_value)
          IN  /\ Len(completed') = Len(completed) + 1
              /\ sell_value < charges
              /\ capital' = capital + sell_value - charges
      ]_vars

\* the whole capital went into one position, and its force close at a price
\* of 1 brought less than the charges: the run ends with capital below 0
C17_Witness ==
  /\ pc = "done"
  /\ capital < 0
  /\ TRADES_ENTERED = 1
  /\ Len(completed) = 1
  /\ completed[1].reason = "EOD_EXIT"
  /\ completed[1].exit_price * completed[1].qty < completed[1].charges

\* C18: every record of the ledger has exit_date > entry_date and
\* holding_days = exit_date - entry_date >= 1; the exit pass of a day only
\* examines positions entered on an earlier day, and every position is
\* entered before the final date of the calendar.
C18_ExitAfterEntry ==
  /\ \A k \in 1..Len(completed) :
        /\ completed[k].exit_date > completed[k].entry_date
        /\ completed[k].holding_days = completed[k].exit_date - completed[k].entry_date
        /\ completed[k].holding_days >= 1
  /\ pc = "exits" => \A k \in 1..Len(scan) : scan[k].entry_date < today
  /\ \A k \in 1..Len(open_positions) : open_positions[k].entry_date < final_date

\* a position entered on a day whose bar the frame has was closed by its stop
\* loss at the first later bar, two days on
C18_Witness ==
  /\ completed # <<>>
  /\ Last(completed).reason = "SL"
  /\ Last(completed).holding_days = 2
  /\ Last(completed).exit_date = today

\* C19: the bar whose open prices an EOD_EXIT record is dated on or before
\* final_date, the exit_date written on the record.
C19_ExitBarWithinHorizon ==
  (pc \in {"force", "done"} /\ completed # <<>> /\ Last(completed).reason = "EOD_EXIT")
    => (Last(completed).exit_price = exit_bar.open
          /\ exit_bar.date <= Last(completed).exit_date)

\* C20: no position of open_positions has hit = TRUE, and each still carries
\* the entry_price, stop_loss and target of the signal it was entered from; the
\* step that sets the flag of a position is the step that closes it with
\* reason TARGET HIT.
C20_OpenNeverHit ==
  /\ [](\A k \in 1..Len(open_positions) :
          /\ open_positions[k].hit = FALSE
          /\ \E j \in 1..Len(trades) :
                /\ trades[j].symbol = open_positions[k].symbol
                /\ trades[j].entry_date = open_positions[k].entry_date
                /\ trades[j].entry_price = open_positions[k].entry_price
                /\ trades[j].stop_loss = open_positions[k].stop_loss
                /\ trades[j].target = open_positions[k].target)
  /\ [][(pos' # NoPos /\ pos'.hit) =>
          /\ Len(completed') = Len(completed) + 1
          /\ Last(completed').reason = "TARGET HIT"
          /\ Last(completed').symbol = pos'.symbol
          /\ Len(open_positions') = Len(open_positions) - 1
          /\ \A k \in 1..Len(open_positions') : open_positions'[k].symbol # pos'.symbol
      ]_vars

\* a target touch has just set the flag of a position and closed it
C20_Witness ==
  /\ pc = "exits"
  /\ pos # NoPos /\ pos.hit
  /\ Last(completed).reason = "TARGET HIT"
  /\ Last(completed).exit_price = pos.target
  /\ ~IsOpen(pos.symbol)

\* C11: every signal the detector has emitted has
\* stop_loss < entry_price < target (every bar of the input has low <= high).
C11_SignalOrdered ==
  \A k \in 1..Len(swing_trades) :
    /\ swing_trades[k].stop_loss < swing_trades[k].entry_price
    /\ swing_trades[k].entry_price < swing_trades[k].target

\* the days of the frame that pass the four filters: rising mean, a touch in
\* the MAX_TOUCH_DAYS bars before, bullish close above the mean, breakout of
\* the next bar
QualifyingDays ==
  { n \in MAX_TOUCH_DAYS..(Len(df) - 2) :
      TrendUp(n) /\ Touched(n) /\ Bullish(n) /\ Breakout(n) }

\* C12: when the detector returns on a frame with exactly one qualifying day,
\* it has emitted exactly one signal, with signal_date that day, entry_date the
\* date of the next bar, entry_price = round(high * 1.005, 2), stop_loss =
\* round(min(prev.low, low), 2) and target = entry_price + 2 * (entry_price -
\* stop_loss) of the emitted values; and no signal is dated on the last bar.
C12_SingleSignal ==
  det_pc = "done" =>
    /\ \A k \in 1..Len(swing_trades) : swing_trades[k].signal_date # Last(df).date
    /\ Cardinality(QualifyingDays) = 1 =>
         LET n == CHOOSE q \in QualifyingDays : TRUE
             sig == swing_trades[1]
             sl == IF Iloc(n - 1).low < Iloc(n).low THEN Iloc(n - 1).low ELSE Iloc(n).low
         IN  /\ Len(swing_trades) = 1
             /\ sig.signal_date = Iloc(n).date
             /\ sig.entry_date = Iloc(n + 1).date
             /\ sig.entry_price % 10 = 0
             /\ sig.entry_price * 1000 - Iloc(n).high * 1005 \in -5000..5000
             /\ sig.stop_loss % 10 = 0
             /\ sig.stop_loss - sl \in -5..5
             /\ sig.target = sig.entry_price + 2 * (sig.entry_price - sig.stop_loss)

====
